---------------------------- MODULE Spec2Model ----------------------------
(***************************************************************************)
(* config-shim: fetch configuration (AWS AppConfig or Parameter Store),    *)
(* optionally rewrite the lines marked {update} from the live environment, *)
(* turn the configuration into KEY=VALUE strings and run a child process.  *)
(*                                                                         *)
(* Go strings are modelled as sequences of one-character strings, so that  *)
(* prefix tests, splitting and substring search are computed, not assumed. *)
(***************************************************************************)
EXTENDS Integers, Sequences, FiniteSets, TLC

VARIABLES
    pc,          \* control position of the running program / call
    flags,       \* the command line as readFlags sees it
    configData,  \* configuration text ([]byte)
    envVars,     \* the live environment as godotenv.Parse returns it
    newCfg,      \* text returned by replaceConfigValues
    vars,        \* []string of KEY=VALUE entries
    calls,       \* remote and OS operations attempted so far, in order
    err,         \* error returned to main ("nil" when none)
    pages,       \* Parameter Store: the result pages under the path
    parameters,  \* getAllParameters: the parameters collected so far
    token,       \* getAllParameters: the NextToken of the next request
    line,        \* argument of replaceLine / parseLine
    variable,    \* argument of replaceLine
    newValue,    \* argument of replaceLine
    ret,         \* value returned by replaceLine / parseLine
    anatomy      \* how the input text was written: key, quoting, value, comment

vars_all == <<pc, flags, configData, envVars, newCfg, vars, calls, err,
              pages, parameters, token, line, variable, newValue, ret, anatomy>>

\* the state of a run of main
runVars  == <<flags, calls, err, pages, parameters, token>>
\* the arguments and the result of replaceLine and parseLine
callVars == <<line, variable, newValue, ret>>

---------------------------------------------------------------------------
(* Bounds of the model *)

\* most lines of a generated configuration text
MaxLines == 2

\* most result pages the Parameter Store holds under the path
MaxPages == 2

\* most parameters of a generated parameter list
MaxParams == 3

---------------------------------------------------------------------------
(* strings *)

EQ   == "="
HASH == "#"
SQ   == "'"
DQ   == "\""
SP   == " "
NL   == "\n"
CR   == "\r"

\* the update marker, main.go line 265
Marker == <<"{", "u", "p", "d", "a", "t", "e", "}">>

\* strings.HasPrefix
HasPrefix(s, p) == Len(p) <= Len(s) /\ SubSeq(s, 1, Len(p)) = p

\* strings.Index, 1-based; 0 when sub does not occur
Index(s, sub) ==
    LET hits == {i \in 1..(Len(s) - Len(sub) + 1) : SubSeq(s, i, i + Len(sub) - 1) = sub}
    IN  IF hits = {} THEN 0 ELSE CHOOSE i \in hits : \A j \in hits : i <= j

\* strings.Contains
Contains(s, sub) == Index(s, sub) # 0

\* the text after position i
From(s, i) == SubSeq(s, i, Len(s))

\* strings.SplitN(s, sep, 2) for a one-character separator
SplitN2(s, sep) ==
    LET i == Index(s, <<sep>>)
    IN  IF i = 0 THEN <<s>> ELSE <<SubSeq(s, 1, i - 1), From(s, i + 1)>>

\* strings.Split(s, sep) for a one-character separator
RECURSIVE Split(_, _)
Split(s, sep) ==
    LET i == Index(s, <<sep>>)
    IN  IF i = 0 THEN <<s>> ELSE <<SubSeq(s, 1, i - 1)>> \o Split(From(s, i + 1), sep)

\* the concatenation of a sequence of strings
RECURSIVE Concat(_)
Concat(ss) == IF ss = <<>> THEN <<>> ELSE Head(ss) \o Concat(Tail(ss))

---------------------------------------------------------------------------
(* replaceLine, main.go *)

\* fmt.Sprintf("%s='%s' #%s", variable, newValue, comment)
SprintfLine(v, nv, comment) == v \o <<EQ, SQ>> \o nv \o <<SQ, SP, HASH>> \o comment

\* replaceLine handles one line of the config file, replacing the variable
\* value if marked for update
replaceLine(l, v, nv) ==
    IF ~HasPrefix(l, v) THEN l
    ELSE LET parts == SplitN2(l, HASH)
         IN  IF Len(parts) # 2 THEN l
             ELSE IF ~Contains(parts[2], Marker) THEN l
             ELSE SprintfLine(v, nv, parts[2])


---------------------------------------------------------------------------
(* replaceConfigValues, main.go *)

\* bufio's dropCR: one trailing carriage return is not part of the line
dropCR(l) == IF l # <<>> /\ l[Len(l)] = CR THEN SubSeq(l, 1, Len(l) - 1) ELSE l

\* The tokens of bufio.Scanner with its default split function ScanLines:
\* the text between newlines, a last unterminated line included when it is
\* not empty.  (The lines of the model are far shorter than
\* bufio.MaxScanTokenSize, so scanner.Err() is nil.)
ScanLines(text) ==
    LET parts == Split(text, NL)
        n     == Len(parts)
        kept  == IF parts[n] = <<>> THEN SubSeq(parts, 1, n - 1) ELSE parts
    IN  [i \in 1..Len(kept) |-> dropCR(kept[i])]

\* the orders in which a range over a map with these keys can visit them
Perms(S) ==
    { o \in [1..Cardinality(S) -> S] :
        \A i, j \in 1..Cardinality(S) : i # j => o[i] # o[j] }

\* for k, v := range envVars { line, err = replaceLine(line, k, v) }
RECURSIVE ApplyKeys(_, _, _)
ApplyKeys(l, env, order) ==
    IF order = <<>> THEN l
    ELSE ApplyKeys(replaceLine(l, Head(order), env[Head(order)]), env, Tail(order))

\* the scanner loop: every line, rewritten, followed by "\n"; orders[i] is
\* the order in which the map iteration visits the keys for line i
replaceConfigValues(cfg, env, orders) ==
    LET ls == ScanLines(cfg)
    IN  Concat([i \in 1..Len(ls) |-> ApplyKeys(ls[i], env, orders[i]) \o <<NL>>])

\* the iteration orders open to a run over this text
Orders(cfg, env) == [1..Len(ScanLines(cfg)) -> Perms(DOMAIN env)]

---------------------------------------------------------------------------
(* getVars, main.go *)

\* godotenv's isSpace, for the characters of the model
IsSpace(c) == c \in {SP, CR}

RECURSIVE TrimLeft(_)
TrimLeft(t) == IF t # <<>> /\ IsSpace(Head(t)) THEN TrimLeft(Tail(t)) ELSE t

RECURSIVE TrimRight(_)
TrimRight(t) ==
    IF t # <<>> /\ IsSpace(t[Len(t)]) THEN TrimRight(SubSeq(t, 1, Len(t) - 1)) ELSE t

\* characters that godotenv rejects in a variable name ([A-Za-z0-9_.] only)
BadKeyChars == {SQ, DQ, HASH, SP, "{", "}"}

\* where the comment of an unquoted value starts: the last '#' that follows
\* white space; 0 when there is none
CommentStart(t) ==
    LET hits == {i \in 2..Len(t) : t[i] = HASH /\ IsSpace(t[i - 1])}
    IN  IF hits = {} THEN 0 ELSE CHOOSE i \in hits : \A j \in hits : j <= i

Skip       == [kind |-> "skip", key |-> <<>>, value |-> <<>>]
ParseError == [kind |-> "error", key |-> <<>>, value |-> <<>>]
Assignment(k, v) == [kind |-> "assign", key |-> k, value |-> v]

\* One line as godotenv.Parse reads it: blank lines and comments are skipped;
\* KEY=VALUE splits on the first '='; a value in single or double quotes
\* runs to the closing quote and may be followed by a comment only; a bare
\* value runs to its comment or the end of the line, white space trimmed.
\* (The texts of the model hold no backslash and no '$', so unescaping and
\* variable expansion inside double quotes leave the value as it is.)
ParseStatement(l) ==
    LET t == TrimLeft(l)
        i == Index(t, <<EQ>>)
        key  == TrimRight(SubSeq(t, 1, i - 1))
        rest == TrimLeft(From(t, i + 1))
        j    == Index(Tail(rest), <<rest[1]>>)
        after == TrimLeft(From(rest, j + 2))
        h    == CommentStart(rest)
    IN  IF t = <<>> \/ t[1] = HASH THEN Skip
        ELSE IF i = 0 THEN ParseError
        ELSE IF \E n \in 1..Len(key) : key[n] \in BadKeyChars THEN ParseError
        ELSE IF rest # <<>> /\ rest[1] \in {SQ, DQ}
             THEN IF j = 0 THEN ParseError
                  ELSE IF after # <<>> /\ after[1] # HASH THEN ParseError
                  ELSE Assignment(key, SubSeq(rest, 2, j))
        ELSE Assignment(key, TrimRight(IF h = 0 THEN rest ELSE SubSeq(rest, 1, h - 1)))

\* m with m[k] = v: a later assignment of a key overwrites the earlier one
MapSet(m, k, v) == [x \in DOMAIN m \cup {k} |-> IF x = k THEN v ELSE m[x]]

EmptyMap == <<>>

RECURSIVE ParseLines(_, _)
ParseLines(ls, m) ==
    IF ls = <<>> THEN [ok |-> TRUE, map |-> m]
    ELSE LET st == ParseStatement(Head(ls))
         IN  IF st.kind = "error" THEN [ok |-> FALSE, map |-> EmptyMap]
             ELSE ParseLines(Tail(ls),
                             IF st.kind = "assign" THEN MapSet(m, st.key, st.value) ELSE m)

\* godotenv.Parse: the map of the variables of an env-format text, or an error
GodotenvParse(text) == ParseLines(Split(text, NL), EmptyMap)

\* for k, v := range vars { varSlice = append(varSlice, k+"="+v) }, the map
\* iteration visiting the keys in this order
VarSlice(m, order) == [i \in 1..Len(order) |-> order[i] \o <<EQ>> \o m[order[i]]]

\* the entries of the assignment lines ls, one for each line
RECURSIVE EntriesPerLine(_)
EntriesPerLine(ls) ==
    IF ls = <<>> THEN <<>>
    ELSE LET st == ParseStatement(Head(ls))
         IN  (IF st.kind = "assign" THEN <<st.key \o <<EQ>> \o st.value>> ELSE <<>>)
                \o EntriesPerLine(Tail(ls))

\* getVars as it would be if it appended an entry for every assignment line
\* instead of ranging over the map
getVarsPerLine(config, order) ==
    IF ~GodotenvParse(config).ok
    THEN [vars |-> <<>>, err |-> "failed to parse configuration from AppConfig"]
    ELSE [vars |-> EntriesPerLine(Split(config, NL)), err |-> "nil"]

\* getVars: the KEY=VALUE strings of a configuration text
getVars(config, order) ==
    LET parsed == GodotenvParse(config)
    IN  IF ~parsed.ok
        THEN [vars |-> <<>>, err |-> "failed to parse configuration from AppConfig"]
        ELSE [vars |-> VarSlice(parsed.map, order), err |-> "nil"]

\* the orders in which getVars may come to visit the variables of a text
VarOrders(config) == Perms(DOMAIN GodotenvParse(config).map)

---------------------------------------------------------------------------
(* the first revision of the parser, unnamed/part_000 *)

\* what a Go call comes to: a returned string, or a run-time panic
Returned(str) == [panic |-> FALSE, str |-> str]
Panicked      == [panic |-> TRUE, str |-> <<>>]

\* parseLine: "" for a line that is no assignment; otherwise the line, with
\* the quotes around split[1] removed.  value[0:1] panics on an empty value
\* and value[1:len(value)-1] on a value of one character.
parseLine(l) ==
    IF Len(l) = 0 \/ HasPrefix(l, <<HASH>>) \/ ~Contains(l, <<EQ>>)
    THEN Returned(<<>>)
    ELSE LET split == Split(l, EQ)
             key   == split[1]
             value == split[2]
         IN  IF Len(value) < 1 THEN Panicked
             ELSE IF value[1] = DQ /\ value[Len(value)] = DQ
                  THEN IF Len(value) - 1 < 1 THEN Panicked
                       ELSE Returned(key \o <<EQ>> \o SubSeq(value, 2, Len(value) - 1))
                  ELSE Returned(l)

\* the loop of getVars over lines ls, vs being the entries appended so far:
\* the line itself is appended when parseLine returns a non-empty string
RECURSIVE getVarsLoop(_, _)
getVarsLoop(ls, vs) ==
    IF ls = <<>> THEN [panic |-> FALSE, vars |-> vs]
    ELSE LET parsed == parseLine(Head(ls))
         IN  IF parsed.panic THEN [panic |-> TRUE, vars |-> <<>>]
             ELSE getVarsLoop(Tail(ls),
                              IF parsed.str # <<>> THEN Append(vs, Head(ls)) ELSE vs)

\* getVars of unnamed/part_000
getVarsPart000(config) == getVarsLoop(Split(config, NL), <<>>)

---------------------------------------------------------------------------
(* getVarsFromParameters, main.go *)

\* strings.TrimPrefix
TrimPrefix(t, p) == IF HasPrefix(t, p) THEN From(t, Len(p) + 1) ELSE t

\* a types.Parameter: Name and Value are pointers, nil when absent
Parameter(hasName, name, hasValue, value) ==
    [hasName |-> hasName, name |-> name, hasValue |-> hasValue, value |-> value]

\* getVarsFromParameters as it would be if a nil name or value ended the
\* loop (break) instead of skipping the parameter (continue)
RECURSIVE getVarsUntilNil(_, _)
getVarsUntilNil(path, ps) ==
    IF ps = <<>> THEN <<>>
    ELSE LET v == Head(ps)
         IN  IF ~v.hasName \/ ~v.hasValue THEN <<>>
             ELSE <<TrimPrefix(v.name, path) \o <<EQ>> \o v.value>>
                     \o getVarsUntilNil(path, Tail(ps))

\* name=value for every parameter that has both, the path cut off the name
RECURSIVE getVarsFromParameters(_, _)
getVarsFromParameters(path, ps) ==
    IF ps = <<>> THEN <<>>
    ELSE LET v    == Head(ps)
             name == TrimPrefix(v.name, path)
         IN  (IF ~v.hasName THEN <<>>
              ELSE IF ~v.hasValue THEN <<>>
              ELSE <<name \o <<EQ>> \o v.value>>)
                 \o getVarsFromParameters(path, Tail(ps))

---------------------------------------------------------------------------
(* the texts the inputs are drawn from *)

GO      == <<"G", "O">>
GOOS    == <<"G", "O", "O", "S">>
GOOSE   == <<"G", "O", "O", "S", "E">>
GOARCH  == <<"G", "O", "A", "R", "C", "H">>
linux   == <<"l", "i", "n", "u", "x">>
windows == <<"w", "i", "n", "d", "o", "w", "s">>
amd64   == <<"a", "m", "d", "6", "4">>

\* a value that holds a '#', which the file format allows inside quotes
hashValue == <<"a", "m", "d", HASH, "6", "4">>

NoQuote == <<>>

\* An assignment line as its author wrote it: KEY=VALUE, the value bare or
\* wrapped in quotes, and possibly a trailing comment behind " #".  A '#'
\* occurs in a value only inside quotes.
Anatomies(keys, values, quotedValues, comments) ==
    { [key |-> k, quote |-> q, value |-> v, hasComment |-> h, comment |-> c] :
        k \in keys, q \in {NoQuote, <<SQ>>, <<DQ>>},
        v \in values \cup quotedValues, h \in BOOLEAN, c \in comments }

WellFormed(a) ==
    /\ (a.quote = NoQuote => ~Contains(a.value, <<HASH>>))
    /\ (~a.hasComment => a.comment = <<>>)

\* the text of the line; a line without a key is blank or only a comment
Render(a) ==
    IF a.key = <<>>
    THEN (IF a.hasComment THEN <<HASH>> \o a.comment ELSE <<>>)
    ELSE a.key \o <<EQ>> \o a.quote \o a.value \o a.quote
               \o (IF a.hasComment THEN <<SP, HASH>> \o a.comment ELSE <<>>)

\* the line carries a trailing comment that holds the marker
MarkedForUpdate(a) == a.hasComment /\ Contains(a.comment, Marker)

LineAnatomies ==
    { a \in Anatomies({GOOS, GOOSE},
                      {windows, windows \o Marker},
                      {hashValue, <<"a", HASH>> \o Marker},
                      {<<>>, <<SP>> \o Marker, <<SP, "O", "S">>}) : WellFormed(a) }

Unused == <<>>

\* main is not running
NoRun ==
    /\ flags = Unused /\ calls = Unused /\ err = Unused
    /\ pages = Unused /\ parameters = Unused /\ token = Unused

---------------------------------------------------------------------------
(* replaceLine called on its own, as TestReplaceLine does *)

InitReplaceLine ==
    /\ pc = "call"
    /\ anatomy \in LineAnatomies
    /\ line = Render(anatomy)
    /\ variable \in {GOOS, GOARCH}
    /\ newValue \in {linux, hashValue}
    /\ ret = Unused
    /\ configData = Unused /\ envVars = Unused /\ newCfg = Unused /\ vars = Unused
    /\ NoRun

ReplaceLineCall ==
    /\ pc = "call"
    /\ ret' = replaceLine(line, variable, newValue)
    /\ pc' = "return"
    /\ UNCHANGED <<runVars, configData, envVars, newCfg, vars,
                   line, variable, newValue, anatomy>>

NextReplaceLine == ReplaceLineCall

SpecReplaceLine == InitReplaceLine /\ [][NextReplaceLine]_vars_all

\* C1: a line whose {update} token occurs only inside the value (quoted or
\* not) and not inside its trailing comment is returned unchanged.
C1_MarkerInValueOnly ==
    (pc = "return" /\ Contains(anatomy.value, Marker) /\ ~MarkedForUpdate(anatomy))
        => ret = line

\* C2: a line that starts with the variable name and whose trailing comment
\* holds {update} comes back as KEY='NEWVALUE' #COMMENT, COMMENT being the
\* line's own trailing comment.
C2_CanonicalRewrite ==
    (pc = "return" /\ HasPrefix(line, variable) /\ MarkedForUpdate(anatomy))
        => ret = SprintfLine(variable, newValue, anatomy.comment)


---------------------------------------------------------------------------
(* replaceConfigValues called on its own, as TestReplaceConfigValues does *)

Assign(k, q, v) == [key |-> k, quote |-> q, value |-> v, hasComment |-> FALSE, comment |-> <<>>]
Commented(k, q, v, c) == [key |-> k, quote |-> q, value |-> v, hasComment |-> TRUE, comment |-> c]

BlankLine   == Assign(<<>>, NoQuote, <<>>)
CommentLine == Commented(<<>>, NoQuote, <<>>, <<SP>> \o Marker)

\* the lines configuration texts are made of
ConfigLines ==
    { Commented(GOOS, NoQuote, windows, <<SP>> \o Marker),
      Commented(GOOSE, NoQuote, windows, <<SP>> \o Marker),
      Commented(GOOS, <<DQ>>, hashValue, <<SP>> \o Marker),
      Commented(GOOS, NoQuote, windows, <<SP, "O", "S">>),
      Assign(GOOS, <<SQ>>, <<"a", HASH>> \o Marker),
      Assign(GOARCH, NoQuote, amd64),
      BlankLine,
      CommentLine }

SeqsUpTo(S, n) == UNION { [1..m -> S] : m \in 0..n }

\* A configuration text as written: its lines, the line terminator in use
\* and whether the last line is terminated.
ConfigAnatomies ==
    { [lines |-> ls, eol |-> e, finalEol |-> f] :
        ls \in SeqsUpTo(ConfigLines, MaxLines), e \in {<<NL>>, <<CR, NL>>}, f \in BOOLEAN }

WellFormedConfig(c) ==
    /\ (c.lines = <<>> => c.finalEol /\ c.eol = <<NL>>)
    /\ (~c.finalEol => Render(c.lines[Len(c.lines)]) # <<>>)

RenderConfig(c) ==
    LET n == Len(c.lines)
    IN  Concat([i \in 1..n |->
            Render(c.lines[i]) \o (IF i = n /\ ~c.finalEol THEN <<>> ELSE c.eol)])

\* What godotenv.Parse makes of os.Environ(): an error, or the map of the
\* variables.
EnvError == [ok |-> FALSE, map |-> <<>>]

Envs(keys, values) ==
    { [ok |-> TRUE, map |-> m] : m \in UNION { [ks -> values] : ks \in SUBSET keys } }

InitReplaceConfig ==
    /\ pc = "call"
    /\ anatomy \in { c \in ConfigAnatomies : WellFormedConfig(c) }
    /\ configData = RenderConfig(anatomy)
    /\ envVars \in Envs({GO, GOOS}, {linux, hashValue}) \cup {EnvError}
    /\ newCfg = Unused /\ vars = Unused
    /\ NoRun
    /\ line = Unused /\ variable = Unused /\ newValue = Unused /\ ret = Unused

ReplaceConfigValuesCall ==
    /\ pc = "call"
    /\ \/ /\ ~envVars.ok
          /\ newCfg' = <<>>
          /\ err' = "failed to parse environment variables using godotenv.Parse"
       \/ /\ envVars.ok
          /\ \E orders \in Orders(configData, envVars.map) :
                newCfg' = replaceConfigValues(configData, envVars.map, orders)
          /\ err' = "nil"
    /\ pc' = "return"
    /\ UNCHANGED <<flags, calls, pages, parameters, token,
                   configData, envVars, vars, callVars, anatomy>>

NextReplaceConfig == ReplaceConfigValuesCall

SpecReplaceConfig == InitReplaceConfig /\ [][NextReplaceConfig]_vars_all

\* the same calls on texts whose values hold no '#'
InitReplaceConfigPlain ==
    /\ InitReplaceConfig
    /\ \A i \in 1..Len(anatomy.lines) : ~Contains(anatomy.lines[i].value, <<HASH>>)

SpecReplaceConfigPlain == InitReplaceConfigPlain /\ [][NextReplaceConfig]_vars_all

\* the call returned a rewritten text
Rewrote == pc = "return" /\ err = "nil"

\* the text before the first '=' of a line
KeyOf(l) == SplitN2(l, EQ)[1]

\* the lines of the input and of the output
InLines  == [i \in 1..Len(anatomy.lines) |-> Render(anatomy.lines[i])]
OutLines == ScanLines(newCfg)

\* C3: a rewritten line keeps its own key, that key is a variable of the
\* live environment, and its new value is the environment's value of that key.
C3_RewriteKeepsKey ==
    Rewrote =>
        \A i \in 1..Len(InLines) :
            (i <= Len(OutLines) /\ OutLines[i] # InLines[i]) =>
                LET k == KeyOf(InLines[i])
                IN  /\ k \in DOMAIN envVars.map
                    /\ KeyOf(OutLines[i]) = k
                    /\ HasPrefix(OutLines[i], k \o <<EQ, SQ>> \o envVars.map[k] \o <<SQ>>)

\* C4: the returned text is the one every order of trying the environment's
\* variables on the lines produces.
C4_OrderIndependent ==
    Rewrote =>
        \A orders \in Orders(configData, envVars.map) :
            newCfg = replaceConfigValues(configData, envVars.map, orders)

\* some variable of the environment is a prefix of the line
Prefixed(l) == \E k \in DOMAIN envVars.map : HasPrefix(l, k)

\* C5: as many lines out as in, in the same order; a line without a trailing
\* comment holding {update}, or that no environment key prefixes, is emitted
\* unchanged; every output line ends with exactly one newline.
C5_IneligibleUntouched ==
    Rewrote =>
        /\ Len(OutLines) = Len(InLines)
        /\ newCfg = Concat([i \in 1..Len(OutLines) |-> OutLines[i] \o <<NL>>])
        /\ \A i \in 1..Len(InLines) :
              (i <= Len(OutLines)
                 /\ (~MarkedForUpdate(anatomy.lines[i]) \/ ~Prefixed(InLines[i])))
                => OutLines[i] = InLines[i]


---------------------------------------------------------------------------
(* parseLine and getVars of unnamed/part_000 called on their own, as
   Test_parseLine and Test_getVars do *)

\* the value abc123 of the tests, shortened
Abc123 == <<"a", "b", "c">>

LegacyLines ==
    { <<>>,                                        \* empty
      <<"A", EQ>>,                                 \* A=
      <<"A", EQ, "B">>,                            \* A=B
      <<HASH, SP, "c">>,                           \* # c
      <<"F", "O", "O">>,                           \* FOO
      <<"A", EQ, DQ, "B", SP, "C", DQ>>,           \* A="B C"
      <<"A", EQ>> \o Abc123 \o <<EQ>>,             \* A=abc=
      <<"A", EQ, DQ>> \o Abc123 \o <<EQ, DQ>>,     \* A="abc="
      <<"E", EQ, DQ, EQ, "F", DQ>>,                \* E="=F"
      <<HASH, "G", EQ, "H">> }                     \* #G=H

\* lines joined by "\n"
RECURSIVE Join(_)
Join(ls) ==
    IF ls = <<>> THEN <<>>
    ELSE IF Len(ls) = 1 THEN ls[1]
    ELSE ls[1] \o <<NL>> \o Join(Tail(ls))

InitLegacy ==
    /\ \/ /\ pc = "parseLine"
          /\ line \in LegacyLines
          /\ configData = Unused
       \/ /\ pc = "getVars"
          /\ line = Unused
          /\ configData \in { Join(ls) : ls \in SeqsUpTo(LegacyLines, MaxLines) }
    /\ ret = Unused /\ vars = Unused
    /\ envVars = Unused /\ newCfg = Unused
    /\ variable = Unused /\ newValue = Unused /\ anatomy = Unused
    /\ NoRun

ParseLineCall ==
    /\ pc = "parseLine"
    /\ LET r == parseLine(line)
       IN  /\ ret' = r.str
           /\ pc' = IF r.panic THEN "parseLine panicked" ELSE "parseLine returned"
    /\ UNCHANGED <<runVars, configData, envVars, newCfg, vars,
                   line, variable, newValue, anatomy>>

GetVarsPart000Call ==
    /\ pc = "getVars"
    /\ LET r == getVarsPart000(configData)
       IN  /\ vars' = r.vars
           /\ pc' = IF r.panic THEN "getVars panicked" ELSE "getVars returned"
    /\ UNCHANGED <<runVars, configData, envVars, newCfg, callVars, anatomy>>

NextLegacy == ParseLineCall \/ GetVarsPart000Call

SpecLegacy == InitLegacy /\ [][NextLegacy]_vars_all

\* a line of the form KEY=REMAINDER
IsAssignment(l) == Len(l) # 0 /\ ~HasPrefix(l, <<HASH>>) /\ Contains(l, <<EQ>>)

\* REMAINDER without one leading and one trailing '"', if it has both
Unwrapped(r) ==
    IF Len(r) >= 2 /\ r[1] = DQ /\ r[Len(r)] = DQ THEN SubSeq(r, 2, Len(r) - 1) ELSE r

\* KEY=VALUE for the line KEY=REMAINDER, split on the first '=' only
Decoded(l) == LET kv == SplitN2(l, EQ) IN kv[1] \o <<EQ>> \o Unwrapped(kv[2])

\* C7: whenever parseLine returns for a line KEY=REMAINDER, it returns
\* KEY=VALUE, VALUE being the whole REMAINDER (embedded '=' included) without
\* its wrapping double quotes.
C7_SplitOnFirstEquals ==
    (pc = "parseLine returned" /\ IsAssignment(line)) => ret = Decoded(line)

\* C8: parseLine returns for every line, and returns A= for the line A=.
C8_ParseLineTotal ==
    /\ pc # "parseLine panicked"
    /\ (pc = "parseLine returned" /\ line = <<"A", EQ>>) => ret = <<"A", EQ>>

\* the assignment lines of a text, decoded, in their order
RECURSIVE DecodedAssignments(_)
DecodedAssignments(ls) ==
    IF ls = <<>> THEN <<>>
    ELSE (IF IsAssignment(Head(ls)) THEN <<Decoded(Head(ls))>> ELSE <<>>)
            \o DecodedAssignments(Tail(ls))

\* C9: whenever getVars returns, it returns the decoded KEY=VALUE form of
\* every assignment line, in line order, and nothing for the other lines.
C9_GetVarsDecodes ==
    pc = "getVars returned" => vars = DecodedAssignments(Split(configData, NL))


---------------------------------------------------------------------------
(* getVars of main.go called on its own, as TestGetVars does *)

InitGetVars ==
    /\ pc = "call"
    /\ anatomy \in { c \in ConfigAnatomies : WellFormedConfig(c) }
    /\ configData = RenderConfig(anatomy)
    /\ vars = Unused
    /\ envVars = Unused /\ newCfg = Unused
    /\ NoRun
    /\ line = Unused /\ variable = Unused /\ newValue = Unused /\ ret = Unused

GetVarsCall ==
    /\ pc = "call"
    /\ \E order \in VarOrders(configData) :
          LET r == getVars(configData, order)
          IN  vars' = r.vars /\ err' = r.err
    /\ pc' = "return"
    /\ UNCHANGED <<flags, calls, pages, parameters, token,
                   configData, envVars, newCfg, callVars, anatomy>>

NextGetVars == GetVarsCall

SpecGetVars == InitGetVars /\ [][NextGetVars]_vars_all

\* the positions of the assignment lines of the text, and those of key k
AssignmentLines == {i \in 1..Len(anatomy.lines) : anatomy.lines[i].key # <<>>}
LinesOf(k) == {i \in AssignmentLines : anatomy.lines[i].key = k}
AssignedKeys == {anatomy.lines[i].key : i \in AssignmentLines}

\* the value of the last line that assigns k
LastValue(k) ==
    anatomy.lines[CHOOSE i \in LinesOf(k) : \A j \in LinesOf(k) : j <= i].value

\* C10: the slice getVars returns holds no key twice: it has exactly one
\* KEY=VALUE entry for each key assigned in the text, with the value of the
\* last line that assigns the key, in whatever order.
C10_UniqueKeysLastWins ==
    (pc = "return" /\ err = "nil") =>
        /\ \A i, j \in 1..Len(vars) : i # j => KeyOf(vars[i]) # KeyOf(vars[j])
        /\ Len(vars) = Cardinality(AssignedKeys)
        /\ {vars[i] : i \in 1..Len(vars)} = {k \o <<EQ>> \o LastValue(k) : k \in AssignedKeys}

\* C10's case: getVars returned for a text that assigns one key on two
\* lines with different values
C10_Witness ==
    /\ pc = "return" /\ err = "nil"
    /\ \E k \in AssignedKeys : \E i, j \in LinesOf(k) :
          i < j /\ anatomy.lines[i].value # anatomy.lines[j].value
    /\ Len(vars) >= 1


---------------------------------------------------------------------------
(* main: a run of the program *)

SLASH == "/"

\* --path as given, without and with the trailing slash
pathP      == <<SLASH, "p">>
pathPSlash == <<SLASH, "p", SLASH>>

\* The command line: --path; whether --app, --env, --config and --strategy are
\* given; -u and -f; the number of arguments after the flags.  (-v and -d
\* only add log output.)
AppConfigFlags ==
    { [path |-> <<>>, app |-> ids[1], env |-> ids[2], config |-> ids[3],
       strategy |-> st, update |-> u, fail |-> f, narg |-> n] :
        ids \in { <<TRUE, TRUE, TRUE>>, <<FALSE, TRUE, TRUE>>,
                  <<TRUE, FALSE, TRUE>>, <<TRUE, TRUE, FALSE>> },
        st \in BOOLEAN, u \in BOOLEAN, f \in BOOLEAN, n \in {0, 1} }

PathFlags ==
    { [path |-> p, app |-> FALSE, env |-> FALSE, config |-> FALSE,
       strategy |-> FALSE, update |-> u, fail |-> f, narg |-> n] :
        p \in {pathP, pathPSlash}, u \in BOOLEAN, f \in BOOLEAN, n \in {0, 1} }

\* the live environments of a run in update mode
PlainEnv == [ok |-> TRUE, map |-> [k \in {GOOS} |-> linux]]

RunEnvs ==
    { EnvError,
      PlainEnv,
      [ok |-> TRUE, map |-> [k \in {GO, GOOS} |-> IF k = GO THEN hashValue ELSE linux]] }

\* the lines of the configuration texts AppConfig may hold; the last one is
\* malformed (its quote is never closed)
RemoteLines ==
    { GOOS \o <<EQ>> \o windows \o <<SP, HASH, SP>> \o Marker,
      GOARCH \o <<EQ>> \o amd64,
      <<HASH, SP>> \o Marker,
      GOOS \o <<EQ, SQ>> \o windows }

RemoteConfigs ==
    { Concat([i \in 1..Len(ls) |-> ls[i] \o <<NL>>]) : ls \in SeqsUpTo(RemoteLines, MaxLines) }

\* the parameters the store may hold under /p/
fooName == pathPSlash \o <<"f", "o", "o">>
barName == pathPSlash \o <<"b", "a", "r">>

PageContents ==
    { <<>>,
      <<Parameter(TRUE, fooName, TRUE, <<"1">>)>>,
      <<Parameter(FALSE, <<>>, TRUE, <<"2">>)>>,
      <<Parameter(TRUE, barName, FALSE, <<>>)>>,
      <<Parameter(TRUE, fooName, TRUE, <<"1">>), Parameter(TRUE, barName, TRUE, <<"2">>)>> }

\* The result pages under the path: page i carries a NextToken, naming page
\* i + 1, unless it is the last.
PageChains == UNION { [1..n -> PageContents] : n \in 1..MaxPages }

\* a nil *string token
NilToken == 0

NextTokenOf(i) == IF i < Len(pages) THEN i + 1 ELSE NilToken

Init ==
    /\ pc = "readFlags"
    /\ flags \in AppConfigFlags \cup PathFlags
    /\ envVars \in IF flags.path = <<>> /\ flags.update THEN RunEnvs ELSE {PlainEnv}
    /\ pages \in IF flags.path # <<>> THEN PageChains ELSE {<<>>}
    /\ configData = <<>> /\ newCfg = <<>> /\ vars = <<>>
    /\ calls = <<>> /\ err = "nil"
    /\ parameters = <<>> /\ token = NilToken
    /\ line = Unused /\ variable = Unused /\ newValue = Unused /\ ret = Unused
    /\ anatomy = Unused

\* what no step of main changes
Untouched == UNCHANGED <<envVars, pages, callVars, anatomy>>

Called(op, ok) == calls' = Append(calls, [op |-> op, ok |-> ok])

\* log.Fatalf("Error: %s", err): exit status 1
Fatal(e) == pc' = "exit 1" /\ err' = e

\* readFlags: a path selects the Parameter Store and gets its trailing
\* slash; otherwise the three AppConfig identifiers are required, and the
\* deployment strategy too in update mode
ReadFlags ==
    /\ pc = "readFlags"
    /\ IF flags.path # <<>>
       THEN /\ flags' = [flags EXCEPT !.path =
                            IF flags.path[Len(flags.path)] = SLASH
                            THEN flags.path ELSE flags.path \o <<SLASH>>]
            /\ pc' = "checkArgs" /\ err' = err
       ELSE /\ flags' = flags
            /\ IF ~flags.app THEN Fatal("no application ID provided")
               ELSE IF ~flags.env THEN Fatal("no environment ID provided")
               ELSE IF ~flags.config THEN Fatal("no config profile ID provided")
               ELSE IF flags.update /\ ~flags.strategy
                    THEN Fatal("deployment strategy ID is required for update mode")
               ELSE pc' = "checkArgs" /\ err' = err
    /\ UNCHANGED <<configData, newCfg, vars, calls, parameters, token>>
    /\ Untouched

\* main: flag.NArg() == 0 is fatal; the path decides where the
\* configuration comes from
CheckArgs ==
    /\ pc = "checkArgs"
    /\ IF flags.narg = 0 THEN Fatal("must specify program to execute")
       ELSE /\ pc' = IF flags.path = <<>> THEN "getLatestConfig" ELSE "getAllParameters"
            /\ err' = err
    /\ UNCHANGED <<flags, configData, newCfg, vars, calls, parameters, token>>
    /\ Untouched

\* the outcome of a call whose only effect here is to succeed or fail: on
\* success main goes on at `next`, on failure it ends with error e
Outcome(op, next, e) ==
    \E ok \in BOOLEAN :
        /\ Called(op, ok)
        /\ IF ok THEN pc' = next /\ err' = err ELSE Fatal(e)

\* getLatestConfig: config.LoadDefaultConfig
LoadConfigForFetch ==
    /\ pc = "getLatestConfig"
    /\ Outcome("LoadDefaultConfig", "StartConfigurationSession", "failed to get config")
    /\ UNCHANGED <<flags, configData, newCfg, vars, parameters, token>>
    /\ Untouched

\* getLatestConfig: client.StartConfigurationSession
StartConfigurationSession ==
    /\ pc = "StartConfigurationSession"
    /\ Outcome("StartConfigurationSession", "GetLatestConfiguration", "failed to get config")
    /\ UNCHANGED <<flags, configData, newCfg, vars, parameters, token>>
    /\ Untouched

\* getLatestConfig: client.GetLatestConfiguration returns the text; update
\* mode goes on to updateConfig, otherwise to getVars
GetLatestConfiguration ==
    /\ pc = "GetLatestConfiguration"
    /\ \/ /\ Called("GetLatestConfiguration", FALSE)
          /\ Fatal("failed to get config")
          /\ configData' = configData
       \/ /\ Called("GetLatestConfiguration", TRUE)
          /\ configData' \in RemoteConfigs
          /\ pc' = IF flags.update THEN "updateConfig" ELSE "getVars"
          /\ err' = err
    /\ UNCHANGED <<flags, newCfg, vars, parameters, token>>
    /\ Untouched

\* updateConfig: replaceConfigValues; its error ends the run before
\* deployNewConfig is called
ReplaceConfigValues ==
    /\ pc = "updateConfig"
    /\ \/ /\ ~envVars.ok
          /\ Called("replaceConfigValues", FALSE)
          /\ Fatal("failure replacing values")
          /\ newCfg' = newCfg
       \/ /\ envVars.ok
          /\ Called("replaceConfigValues", TRUE)
          /\ \E orders \in Orders(configData, envVars.map) :
                newCfg' = replaceConfigValues(configData, envVars.map, orders)
          /\ pc' = "deployNewConfig" /\ err' = err
    /\ UNCHANGED <<flags, configData, vars, parameters, token>>
    /\ Untouched

\* deployNewConfig: config.LoadDefaultConfig
LoadConfigForDeploy ==
    /\ pc = "deployNewConfig"
    /\ Outcome("LoadDefaultConfig", "CreateHostedConfigurationVersion", "failed to deploy config")
    /\ UNCHANGED <<flags, configData, newCfg, vars, parameters, token>>
    /\ Untouched

\* deployNewConfig: client.CreateHostedConfigurationVersion with the new text
CreateHostedConfigurationVersion ==
    /\ pc = "CreateHostedConfigurationVersion"
    /\ Outcome("CreateHostedConfigurationVersion", "StartDeployment", "failed to deploy config")
    /\ UNCHANGED <<flags, configData, newCfg, vars, parameters, token>>
    /\ Untouched

\* client.StartDeployment without the check of its error
StartDeploymentUnchecked ==
    /\ pc = "StartDeployment"
    /\ \E ok \in BOOLEAN : Called("StartDeployment", ok)
    /\ configData' = newCfg
    /\ pc' = "getVars"
    /\ UNCHANGED <<flags, newCfg, vars, err, parameters, token>>
    /\ Untouched

\* deployNewConfig: client.StartDeployment; on success updateConfig returns
\* the new text, which getConfigFromAppConfig goes on with
StartDeployment ==
    /\ pc = "StartDeployment"
    /\ \/ /\ Called("StartDeployment", FALSE)
          /\ Fatal("failed to deploy config")
          /\ configData' = configData
       \/ /\ Called("StartDeployment", TRUE)
          /\ configData' = newCfg
          /\ pc' = "getVars" /\ err' = err
    /\ UNCHANGED <<flags, newCfg, vars, parameters, token>>
    /\ Untouched

\* getConfigFromAppConfig: getVars, then the -f check
GetVars ==
    /\ pc = "getVars"
    /\ \E order \in VarOrders(configData) :
          LET r == getVars(configData, order)
          IN  /\ Called("getVars", r.err = "nil")
              /\ IF r.err # "nil" THEN Fatal("failed to get vars") /\ vars' = vars
                 ELSE IF flags.fail /\ Len(r.vars) = 0
                      THEN Fatal("no parameters found") /\ vars' = vars
                 ELSE vars' = r.vars /\ pc' = "run" /\ err' = err
    /\ UNCHANGED <<flags, configData, newCfg, parameters, token>>
    /\ Untouched

\* getAllParameters: config.LoadDefaultConfig
LoadConfigForSSM ==
    /\ pc = "getAllParameters"
    /\ Outcome("LoadDefaultConfig", "GetParametersByPath", "failed to get parameters from SSM")
    /\ UNCHANGED <<flags, configData, newCfg, vars, parameters, token>>
    /\ Untouched

\* getAllParameters: one turn of the loop.  The request carries the token of
\* the page before; the loop ends on a page without NextToken or without
\* parameters.
GetParametersByPath ==
    /\ pc = "GetParametersByPath"
    /\ \/ /\ Called("GetParametersByPath", FALSE)
          /\ Fatal("failed to get parameters from SSM")
          /\ parameters' = <<>> /\ token' = token
       \/ LET i   == IF token = NilToken THEN 1 ELSE token
              out == pages[i]
          IN  /\ Called("GetParametersByPath", TRUE)
              /\ parameters' = parameters \o out
              /\ IF NextTokenOf(i) = NilToken \/ Len(out) = 0
                 THEN pc' = "getConfigFromPS" /\ token' = token
                 ELSE pc' = pc /\ token' = NextTokenOf(i)
              /\ err' = err
    /\ UNCHANGED <<flags, configData, newCfg, vars>>
    /\ Untouched

\* getConfigFromPS: the -f check, then getVarsFromParameters
GetConfigFromPS ==
    /\ pc = "getConfigFromPS"
    /\ IF flags.fail /\ Len(parameters) = 0
       THEN Fatal("no parameters found") /\ vars' = vars
       ELSE /\ vars' = getVarsFromParameters(flags.path, parameters)
            /\ pc' = "run" /\ err' = err
    /\ UNCHANGED <<flags, configData, newCfg, calls, parameters, token>>
    /\ Untouched

\* main: cmd.Run with the variables appended to the environment; a failing
\* command ends the run with exit status 2
Run ==
    /\ pc = "run"
    /\ \E ok \in BOOLEAN :
          /\ Called("Run", ok)
          /\ pc' = IF ok THEN "exit 0" ELSE "exit 2"
    /\ UNCHANGED <<flags, configData, newCfg, vars, err, parameters, token>>
    /\ Untouched

Next ==
    \/ ReadFlags
    \/ CheckArgs
    \/ LoadConfigForFetch
    \/ StartConfigurationSession
    \/ GetLatestConfiguration
    \/ ReplaceConfigValues
    \/ LoadConfigForDeploy
    \/ CreateHostedConfigurationVersion
    \/ StartDeployment
    \/ GetVars
    \/ LoadConfigForSSM
    \/ GetParametersByPath
    \/ GetConfigFromPS
    \/ Run

Spec == Init /\ [][Next]_vars_all

\* the run reads from AppConfig in update mode
UpdateMode == flags.path = <<>> /\ flags.update

\* the steps of a run in update mode, in their order
UpdateSteps ==
    << "LoadDefaultConfig", "StartConfigurationSession", "GetLatestConfiguration",
       "replaceConfigValues",
       "LoadDefaultConfig", "CreateHostedConfigurationVersion", "StartDeployment",
       "getVars", "Run" >>

\* C6: in update mode the steps are attempted in the order fetch, rewrite,
\* create version, start deployment, parse, launch child, and a step is
\* attempted only if every step before it succeeded.
C6_UpdateOrder ==
    UpdateMode =>
        /\ Len(calls) <= Len(UpdateSteps)
        /\ \A i \in 1..Len(calls) :
              /\ calls[i].op = UpdateSteps[i]
              /\ (i < Len(calls) => calls[i].ok)

\* C6's case: a run in update mode went through every step and launched
\* the child
C6_Witness ==
    UpdateMode /\ Len(calls) = Len(UpdateSteps) /\ pc = "exit 0"

\* C6's other case: the rewrite failed, and nothing was created or deployed
C6_RewriteFailed ==
    /\ UpdateMode /\ pc = "exit 1" /\ Len(calls) = 4
    /\ calls[4] = [op |-> "replaceConfigValues", ok |-> FALSE]

\* the child process was launched, or is about to be
Launched == pc \in {"run", "exit 0", "exit 2"}

\* C12: with -f the child is never launched with an empty set of
\* configuration variables: a source that yields no variable ends the run
\* with "no parameters found" instead.
C12_FailOnEmpty ==
    (flags.fail /\ Launched) => Len(vars) > 0

\* the run reads from the Parameter Store and getAllParameters has returned
\* without an error
GotAllParameters ==
    /\ flags.path # <<>>
    /\ pc \in {"getConfigFromPS", "run", "exit 0", "exit 2"}

\* C13: getAllParameters returns the parameters of every page of the chain,
\* in page order, up to and including the page without a NextToken; after a
\* failed request it returns no parameters.
C13_AllPages ==
    /\ GotAllParameters => parameters = Concat(pages)
    /\ (pc = "exit 1" /\ err = "failed to get parameters from SSM")
          => parameters = <<>>

---------------------------------------------------------------------------
(* getVarsFromParameters called on its own, as TestGetVarsFromParameters does *)

\* the parameters of the test, one with a name outside the path and one
\* with neither name nor value
TestParameters ==
    { Parameter(TRUE, fooName, TRUE, <<"1">>),
      Parameter(TRUE, barName, TRUE, <<"2">>),
      Parameter(FALSE, <<>>, TRUE, <<"3">>),
      Parameter(TRUE, barName, FALSE, <<>>),
      Parameter(FALSE, <<>>, FALSE, <<>>),
      Parameter(TRUE, <<"b", "a", "z">>, TRUE, <<"4">>) }

InitParameters ==
    /\ pc = "call"
    /\ flags \in { [path |-> p] : p \in {pathPSlash, <<SLASH>>} }
    /\ parameters \in SeqsUpTo(TestParameters, MaxParams)
    /\ vars = Unused
    /\ calls = Unused /\ err = Unused /\ pages = Unused /\ token = Unused
    /\ configData = Unused /\ envVars = Unused /\ newCfg = Unused
    /\ line = Unused /\ variable = Unused /\ newValue = Unused /\ ret = Unused
    /\ anatomy = Unused

GetVarsFromParametersCall ==
    /\ pc = "call"
    /\ vars' = getVarsFromParameters(flags.path, parameters)
    /\ pc' = "return"
    /\ UNCHANGED <<runVars, configData, envVars, newCfg, callVars, anatomy>>

NextParameters == GetVarsFromParametersCall

SpecParameters == InitParameters /\ [][NextParameters]_vars_all

\* the parameter has a name and a value
HasBoth(p) == p.hasName /\ p.hasValue

\* the name without the path in front of it
ShortName(p) ==
    IF HasPrefix(p.name, flags.path)
    THEN SubSeq(p.name, Len(flags.path) + 1, Len(p.name)) ELSE p.name

\* C11: getVarsFromParameters returns, in the order of the list, exactly one
\* name=value string for each parameter that has both a name and a value,
\* the name without the leading path; the others are skipped and affect
\* nothing else.
C11_ParametersToVars ==
    pc = "return" =>
        LET kept == SelectSeq(parameters, HasBoth)
        IN  /\ Len(vars) = Len(kept)
            /\ \A i \in 1..Len(kept) :
                  vars[i] = ShortName(kept[i]) \o <<EQ>> \o kept[i].value

\* C11's case: the call returned for a list in which a parameter without a
\* name or without a value comes before one that has both
C11_Witness ==
    /\ pc = "return"
    /\ \E i, j \in 1..Len(parameters) :
          i < j /\ ~HasBoth(parameters[i]) /\ HasBoth(parameters[j])
    /\ Len(vars) >= 1

---------------------------------------------------------------------------
(* Update mode run twice: the text the first run deployed is the text the
   second run fetches, under the same live environment *)

ReplaceConfigValuesAgain ==
    /\ pc = "return" /\ err = "nil"
    /\ configData' = newCfg
    /\ \E orders \in Orders(newCfg, envVars.map) :
          newCfg' = replaceConfigValues(newCfg, envVars.map, orders)
    /\ pc' = "return again"
    /\ UNCHANGED <<flags, calls, pages, parameters, token, err,
                   envVars, vars, callVars, anatomy>>

NextRerun == ReplaceConfigValuesCall \/ ReplaceConfigValuesAgain

\* texts whose values hold no '#', and a live environment that sets GOOS
InitRerun ==
    /\ InitReplaceConfigPlain
    /\ envVars.ok => DOMAIN envVars.map = {GOOS}

SpecRerun == InitRerun /\ [][NextRerun]_vars_all

\* C14: replaceConfigValues applied to its own output under the same
\* environment returns that output unchanged.
C14_Idempotent ==
    pc = "return again" => newCfg = configData

=============================================================================
